---- MODULE Spec2Model ----
(***************************************************************************)
(* Model of scripts/create_release.py: main() reads the release metadata   *)
(* from the process environment, builds the release record, POSTs it to    *)
(* the internal API and maps the outcome to standard output and to the     *)
(* process exit code.                                                      *)
(*                                                                         *)
(* A Python str is a sequence of characters, each character a one-letter   *)
(* TLA+ string (a non-ASCII character is written by its code point name,   *)
(* "U+274C"); a Python bytes object is a sequence of integers 0..255.      *)
(* A process invocation is a run; every variable is indexed by the run.    *)
(***************************************************************************)
EXTENDS Integers, Sequences, FiniteSets, TLC

\* ------------------------------------------------------------------------
\* String literals of the script
\* ------------------------------------------------------------------------

BETA == <<"b", "e", "t", "a">>

STABLE == <<"s", "t", "a", "b", "l", "e">>

DEFAULT_REPO == <<"f", "o", "x", "w", "i", "s", "e", "-", "a", "i", "/", "T", "h", "e", "Q", "u", "i", "c", "k", "F", "o", "x">>

URL_HOST == <<"h", "t", "t", "p", "s", ":", "/", "/", "g", "i", "t", "h", "u", "b", ".", "c", "o", "m", "/">>

URL_DOWNLOAD == <<"/", "r", "e", "l", "e", "a", "s", "e", "s", "/", "d", "o", "w", "n", "l", "o", "a", "d", "/", "v">>

URL_FILE == <<"/", "T", "h", "e", "Q", "u", "i", "c", "k", "F", "o", "x", "-">>

URL_EXT == <<".", "z", "i", "p">>

MINIMUM_OS == <<"1", "3", ".", "0">>

API_URL == <<"h", "t", "t", "p", "s", ":", "/", "/", "a", "p", "i", ".", "t", "h", "e", "q", "u", "i", "c", "k", "f", "o", "x", ".", "a", "i", "/", "a", "p", "i", "/", "v", "1", "/", "i", "n", "t", "e", "r", "n", "a", "l", "/", "r", "e", "l", "e", "a", "s", "e", "s">>

BEARER == <<"B", "e", "a", "r", "e", "r", " ">>

APPLICATION_JSON == <<"a", "p", "p", "l", "i", "c", "a", "t", "i", "o", "n", "/", "j", "s", "o", "n">>

HTTP_STATUS == <<"H", "T", "T", "P", " ", "S", "t", "a", "t", "u", "s", ":", " ">>

RESPONSE == <<"R", "e", "s", "p", "o", "n", "s", "e", ":", " ">>

FAILED == <<"U+274C", " ", "F", "a", "i", "l", "e", "d", " ", "t", "o", " ", "c", "r", "e", "a", "t", "e", " ", "r", "e", "l", "e", "a", "s", "e", " ", "r", "e", "c", "o", "r", "d">>

CREATED == <<"U+2705", " ", "R", "e", "l", "e", "a", "s", "e", " ", "r", "e", "c", "o", "r", "d", " ", "c", "r", "e", "a", "t", "e", "d", " ", "s", "u", "c", "c", "e", "s", "s", "f", "u", "l", "l", "y">>

\* The status the script accepts (line 50).
CREATED_STATUS == 201

\* ------------------------------------------------------------------------
\* Pure functions of the Python runtime the script calls
\* ------------------------------------------------------------------------

\* A dict with one more binding (an assignment to a local, os.environ).
Bind(f, name, value) ==
    [n \in (DOMAIN f) \cup {name} |-> IF n = name THEN value ELSE f[n]]

\* `sub in s` for two str: s[i:] starts with sub for some offset i, searched
\* from the left.
RECURSIVE ContainsFrom(_, _, _)
ContainsFrom(sub, s, i) ==
    IF i + Len(sub) - 1 > Len(s) THEN FALSE
    ELSE IF SubSeq(s, i, i + Len(sub) - 1) = sub THEN TRUE
    ELSE ContainsFrom(sub, s, i + 1)

Contains(sub, s) == ContainsFrom(sub, s, 1)

DigitChars == <<"0", "1", "2", "3", "4", "5", "6", "7", "8", "9">>

IsDigit(c) == \E d \in 1..10 : DigitChars[d] = c

DigitValue(c) == (CHOOSE d \in 1..10 : DigitChars[d] = c) - 1

Whitespace == {" ", "\t", "\n", "\r"}

\* str.strip() as int() applies it: leading and trailing whitespace removed.
RECURSIVE LStrip(_)
LStrip(s) ==
    IF s # <<>> /\ Head(s) \in Whitespace THEN LStrip(Tail(s)) ELSE s

RECURSIVE RStrip(_)
RStrip(s) ==
    IF s # <<>> /\ s[Len(s)] \in Whitespace
    THEN RStrip(SubSeq(s, 1, Len(s) - 1)) ELSE s

\* The digit part of an integer literal: digits, single underscores allowed
\* between two digits only.
IsDigitPart(s) ==
    /\ s # <<>>
    /\ \A i \in 1..Len(s) : IsDigit(s[i]) \/ s[i] = "_"
    /\ IsDigit(s[1]) /\ IsDigit(s[Len(s)])
    /\ \A i \in 1..(Len(s) - 1) : ~(s[i] = "_" /\ s[i + 1] = "_")

RECURSIVE DigitPartValue(_, _)
DigitPartValue(s, acc) ==
    IF s = <<>> THEN acc
    ELSE IF Head(s) = "_" THEN DigitPartValue(Tail(s), acc)
    ELSE DigitPartValue(Tail(s), 10 * acc + DigitValue(Head(s)))

\* int(s) for a str, base 10: [ok |-> TRUE, value |-> n], or ok = FALSE where
\* int() raises ValueError.
ParseInt(s) ==
    LET t == RStrip(LStrip(s))
        signed == t # <<>> /\ Head(t) \in {"+", "-"}
        digits == IF signed THEN Tail(t) ELSE t
    IN  IF IsDigitPart(digits)
        THEN [ok |-> TRUE,
              value |-> IF signed /\ Head(t) = "-"
                        THEN 0 - DigitPartValue(digits, 0)
                        ELSE DigitPartValue(digits, 0)]
        ELSE [ok |-> FALSE, value |-> 0]

\* str(n) of a non-negative int, as an f-string formats it.
RECURSIVE StrOfNat(_)
StrOfNat(n) ==
    IF n < 10 THEN <<DigitChars[n + 1]>>
    ELSE StrOfNat(n \div 10) \o <<DigitChars[(n % 10) + 1]>>

\* A number zero-padded to a width, as strftime's %Y %m %d %H %M %S.
RECURSIVE ZeroPad(_, _)
ZeroPad(s, width) ==
    IF Len(s) >= width THEN s ELSE ZeroPad(<<"0">> \o s, width)

\* datetime.strftime("%Y-%m-%dT%H:%M:%SZ")
Strftime(t) ==
    ZeroPad(StrOfNat(t.year), 4) \o <<"-">> \o ZeroPad(StrOfNat(t.month), 2)
      \o <<"-">> \o ZeroPad(StrOfNat(t.day), 2) \o <<"T">>
      \o ZeroPad(StrOfNat(t.hour), 2) \o <<":">>
      \o ZeroPad(StrOfNat(t.minute), 2) \o <<":">>
      \o ZeroPad(StrOfNat(t.second), 2) \o <<"Z">>

\* chr(cp): the character of a code point, ASCII by its letter for the bytes
\* the model's bodies use, any other code point by its number.
Chr(cp) ==
    CASE cp = 111 -> "o"
      [] cp = 107 -> "k"
      [] OTHER -> "U+" \o ToString(cp)

IsContinuation(b) == 128 <= b /\ b <= 191

\* bytes.decode("utf-8"), strict: [ok |-> TRUE, text |-> str], or ok = FALSE
\* where decode raises UnicodeDecodeError (a stray continuation byte, a
\* truncated or overlong sequence, a surrogate, a byte above 0xF4).
RECURSIVE DecodeUtf8(_, _)
DecodeUtf8(bytes, acc) ==
    IF bytes = <<>> THEN [ok |-> TRUE, text |-> acc]
    ELSE LET b1 == bytes[1]
             n == Len(bytes)
             bad == [ok |-> FALSE, text |-> <<>>]
         IN  IF b1 < 128
             THEN DecodeUtf8(Tail(bytes), Append(acc, Chr(b1)))
             ELSE IF 194 <= b1 /\ b1 <= 223
             THEN IF n >= 2 /\ IsContinuation(bytes[2])
                  THEN DecodeUtf8(SubSeq(bytes, 3, n),
                         Append(acc, Chr((b1 - 192) * 64 + (bytes[2] - 128))))
                  ELSE bad
             ELSE IF 224 <= b1 /\ b1 <= 239
             THEN IF /\ n >= 3
                     /\ IsContinuation(bytes[2]) /\ IsContinuation(bytes[3])
                     /\ (b1 = 224 => bytes[2] >= 160)
                     /\ (b1 = 237 => bytes[2] <= 159)
                  THEN DecodeUtf8(SubSeq(bytes, 4, n),
                         Append(acc, Chr((b1 - 224) * 4096
                                  + (bytes[2] - 128) * 64 + (bytes[3] - 128))))
                  ELSE bad
             ELSE IF 240 <= b1 /\ b1 <= 244
             THEN IF /\ n >= 4
                     /\ IsContinuation(bytes[2]) /\ IsContinuation(bytes[3])
                     /\ IsContinuation(bytes[4])
                     /\ (b1 = 240 => bytes[2] >= 144)
                     /\ (b1 = 244 => bytes[2] <= 143)
                  THEN DecodeUtf8(SubSeq(bytes, 5, n),
                         Append(acc, Chr((b1 - 240) * 262144
                                  + (bytes[2] - 128) * 4096
                                  + (bytes[3] - 128) * 64 + (bytes[4] - 128))))
                  ELSE bad
             ELSE bad

Decode(bytes) == DecodeUtf8(bytes, <<>>)

\* json.dumps(payload): the JSON object as its members in the dict's insertion
\* order, each value with its JSON type (str -> string, int -> number,
\* False -> false).
JsonString(s) == [type |-> "string", value |-> s]

JsonNumber(n) == [type |-> "number", value |-> n]

JsonFalse == [type |-> "false", value |-> FALSE]

PayloadKeys ==
    <<"version", "build_number", "channel", "release_notes", "download_url",
      "signature", "file_size", "minimum_os_version", "is_critical",
      "published_at">>

\* The encoder picks the JSON type by the Python type of the value, which the
\* payload fixes per key: file_size is an int, is_critical is False, every
\* other value is a str.
JsonValue(name, v) ==
    CASE name = "file_size" -> JsonNumber(v)
      [] name = "is_critical" -> JsonFalse
      [] OTHER -> JsonString(v)

JsonDumps(payload) ==
    [i \in 1..Len(PayloadKeys) |->
        [name |-> PayloadKeys[i],
         json |-> JsonValue(PayloadKeys[i], payload[PayloadKeys[i]])]]

\* The value of a member of a JSON object.
JsonGet(data, name) ==
    (CHOOSE m \in {data[i] : i \in 1..Len(data)} : m.name = name).json.value

\* ------------------------------------------------------------------------
\* State
\* ------------------------------------------------------------------------

VARIABLES
    pc,         \* pc[r]: the line of main() run r is about to execute
    environ,    \* environ[r]: os.environ of run r, a dict name -> str
    api,        \* api[r]: what the transport will answer run r's request
    clock,      \* clock[r]: what datetime.utcnow() returns in run r
    frame,      \* frame[r]: the local variables of main() bound so far
    wire,       \* wire[r]: the HTTP requests run r has sent
    stdout,     \* stdout[r]: the lines run r has printed
    stderr,     \* stderr[r]: the uncaught exception of run r, if any
    exit_code   \* exit_code[r]: the exit status, for the runs that ended

vars == <<pc, environ, api, clock, frame, wire, stdout, stderr, exit_code>>

inputs == <<environ, api, clock>>

\* The invocations of the script.
Runs == DOMAIN pc

EmptyDict == [n \in {} |-> <<>>]

\* ------------------------------------------------------------------------
\* Steps shared by the statements
\* ------------------------------------------------------------------------

Goto(r, line) == pc' = [pc EXCEPT ![r] = line]

Assign(r, name, value) == frame' = [frame EXCEPT ![r] = Bind(@, name, value)]

Emit(r, line) == stdout' = [stdout EXCEPT ![r] = Append(@, line)]

\* The process ends with an exit status.
Terminate(r, code) ==
    /\ pc' = [pc EXCEPT ![r] = "exited"]
    /\ exit_code' = Bind(exit_code, r, code)

\* An exception no handler of main() catches: the interpreter prints the
\* traceback on standard error and the process ends with status 1.
Uncaught(r, exception) ==
    /\ Terminate(r, 1)
    /\ stderr' = [stderr EXCEPT ![r] = Append(@, exception)]
    /\ UNCHANGED <<frame, wire, stdout, inputs>>

\* os.environ.get(name, "") in place of os.environ[name]: a missing variable
\* reads as the empty string.
ReadRequiredWithDefault(r, line, name, local, next) ==
    /\ pc[r] = line
    /\ Assign(r, local,
              IF name \in DOMAIN environ[r] THEN environ[r][name] ELSE <<>>)
    /\ Goto(r, next)
    /\ UNCHANGED <<wire, stdout, stderr, exit_code, inputs>>

\* os.environ[name]: the value bound to a local, or KeyError.
ReadRequired(r, line, name, local, next) ==
    /\ pc[r] = line
    /\ IF name \in DOMAIN environ[r]
       THEN /\ Assign(r, local, environ[r][name])
            /\ Goto(r, next)
            /\ UNCHANGED <<wire, stdout, stderr, exit_code, inputs>>
       ELSE Uncaught(r, "KeyError")

\* os.environ.get(name) or default: an empty value reads as the default.
EnvironGetOrDefault(r, name, default) ==
    IF name \in DOMAIN environ[r] /\ environ[r][name] # <<>>
    THEN environ[r][name] ELSE default

\* os.environ.get(name, default)
EnvironGet(r, name, default) ==
    IF name \in DOMAIN environ[r] THEN environ[r][name] ELSE default

ReadOptional(r, line, name, default, local, next) ==
    /\ pc[r] = line
    /\ Assign(r, local, EnvironGet(r, name, default))
    /\ Goto(r, next)
    /\ UNCHANGED <<wire, stdout, stderr, exit_code, inputs>>

\* ------------------------------------------------------------------------
\* main(), one action per statement
\* ------------------------------------------------------------------------

\* line 11
ReadVersion(r) == ReadRequired(r, "l11", "VERSION", "version", "l12")

\* version.startswith("beta") in place of the substring test.
ChannelOfPrefix(version) ==
    IF Len(version) >= 4 /\ SubSeq(version, 1, 4) = BETA THEN BETA ELSE STABLE

ChannelOf(version) == IF Contains(BETA, version) THEN BETA ELSE STABLE

\* line 12
DeriveChannel(r) ==
    /\ pc[r] = "l12"
    /\ Assign(r, "channel", ChannelOf(frame[r].version))
    /\ Goto(r, "l13")
    /\ UNCHANGED <<wire, stdout, stderr, exit_code, inputs>>

\* line 13
ReadReleaseNotes(r) ==
    ReadOptional(r, "l13", "RELEASE_NOTES", <<>>, "release_notes", "l14")

\* line 14
ReadGithubRepo(r) ==
    ReadOptional(r, "l14", "GITHUB_REPOSITORY", DEFAULT_REPO, "github_repo", "l15")

\* line 15
ReadSignature(r) ==
    ReadRequired(r, "l15", "SPARKLE_SIGNATURE", "signature", "l16")

\* line 16
ReadFileSize(r) ==
    /\ pc[r] = "l16"
    /\ IF "FILE_SIZE" \notin DOMAIN environ[r]
       THEN Uncaught(r, "KeyError")
       ELSE LET parsed == ParseInt(environ[r]["FILE_SIZE"])
            IN  IF parsed.ok
                THEN /\ Assign(r, "file_size", parsed.value)
                     /\ Goto(r, "l17")
                     /\ UNCHANGED <<wire, stdout, stderr, exit_code, inputs>>
                ELSE Uncaught(r, "ValueError")

\* line 17
ReadApiToken(r) ==
    ReadRequired(r, "l17", "INTERNAL_API_TOKEN", "api_token", "l19")

DownloadUrl(github_repo, version) ==
    URL_HOST \o github_repo \o URL_DOWNLOAD \o version \o URL_FILE \o version
      \o URL_EXT

\* s.split("-")[0]
RECURSIVE UpToDash(_)
UpToDash(s) ==
    IF s = <<>> \/ Head(s) = "-" THEN <<>> ELSE <<Head(s)>> \o UpToDash(Tail(s))

\* build_number without the pre-release suffix of the version.
PayloadBuildNumberBase(f, now) ==
    [version |-> f.version,
     build_number |-> UpToDash(f.version),
     channel |-> f.channel,
     release_notes |-> f.release_notes,
     download_url |-> URL_HOST \o f.github_repo \o URL_DOWNLOAD \o f.version
                        \o URL_FILE \o f.version \o URL_EXT,
     signature |-> f.signature,
     file_size |-> f.file_size,
     minimum_os_version |-> MINIMUM_OS,
     is_critical |-> FALSE,
     published_at |-> Strftime(now)]

Payload(f, now) ==
    [version |-> f.version,
     build_number |-> f.version,
     channel |-> f.channel,
     release_notes |-> f.release_notes,
     download_url |-> DownloadUrl(f.github_repo, f.version),
     signature |-> f.signature,
     file_size |-> f.file_size,
     minimum_os_version |-> MINIMUM_OS,
     is_critical |-> FALSE,
     published_at |-> Strftime(now)]

\* lines 19-30
BuildPayload(r) ==
    /\ pc[r] = "l19"
    /\ Assign(r, "payload", Payload(frame[r], clock[r]))
    /\ Goto(r, "l32")
    /\ UNCHANGED <<wire, stdout, stderr, exit_code, inputs>>

\* The token sent as a query parameter of the URL as well.
MakeRequestTokenInUrl(data, api_token) ==
    [method |-> "POST",
     url |-> API_URL \o <<"?", "t", "o", "k", "e", "n", "=">> \o api_token,
     headers |-> ("Authorization" :> (BEARER \o api_token))
                   @@ ("Content-Type" :> APPLICATION_JSON),
     data |-> data]

MakeRequest(data, api_token) ==
    [method |-> "POST",
     url |-> API_URL,
     headers |-> ("Authorization" :> (BEARER \o api_token))
                   @@ ("Content-Type" :> APPLICATION_JSON),
     data |-> data]

\* lines 32-41
BuildRequest(r) ==
    /\ pc[r] = "l32"
    /\ frame' = [frame EXCEPT ![r] =
          Bind(Bind(@, "data", JsonDumps(@.payload)),
               "req", MakeRequest(JsonDumps(@.payload), @.api_token))]
    /\ Goto(r, "l44")
    /\ UNCHANGED <<wire, stdout, stderr, exit_code, inputs>>

\* Every failure to get a 2xx answer handled as an HTTPError.
UrlopenResultAnyError(answer) ==
    IF answer.answered /\ 200 <= answer.status /\ answer.status < 300
    THEN "response" ELSE "HTTPError"

\* What urlopen does with the answer: a 2xx answer is returned as the
\* response, any other status is raised as HTTPError, and no answer at all
\* (connection, TLS or DNS failure) is raised as URLError.
UrlopenResult(answer) ==
    IF ~answer.answered THEN "URLError"
    ELSE IF 200 <= answer.status /\ answer.status < 300 THEN "response"
    ELSE "HTTPError"

\* line 44: the request goes out, urlopen blocks until the outcome is known
UrlOpen(r) ==
    /\ pc[r] = "l44"
    /\ wire' = [wire EXCEPT ![r] = Append(@, frame[r].req)]
    /\ CASE UrlopenResult(api[r]) = "response" ->
              /\ Assign(r, "response", [status |-> api[r].status, raw |-> api[r].raw])
              /\ Goto(r, "l45")
              /\ UNCHANGED <<stdout, stderr, exit_code, inputs>>
         [] UrlopenResult(api[r]) = "HTTPError" ->
              /\ Assign(r, "e", [code |-> api[r].status, raw |-> api[r].raw])
              /\ Goto(r, "l56")
              /\ UNCHANGED <<stdout, stderr, exit_code, inputs>>
         [] OTHER ->
              /\ Terminate(r, 1)
              /\ stderr' = [stderr EXCEPT ![r] = Append(@, "URLError")]
              /\ UNCHANGED <<frame, stdout, inputs>>

\* lines 45-46: UnicodeDecodeError is not an HTTPError, the handler of line 55
\* does not catch it
ReadResponse(r) ==
    /\ pc[r] = "l45"
    /\ LET decoded == Decode(frame[r].response.raw)
       IN  IF decoded.ok
           THEN /\ frame' = [frame EXCEPT ![r] =
                      Bind(Bind(@, "status", @.response.status),
                           "body", decoded.text)]
                /\ Goto(r, "l47")
                /\ UNCHANGED <<wire, stdout, stderr, exit_code, inputs>>
           ELSE Uncaught(r, "UnicodeDecodeError")

\* lines 47-48
PrintResponse(r) ==
    /\ pc[r] = "l47"
    /\ stdout' = [stdout EXCEPT ![r] =
          @ \o <<HTTP_STATUS \o StrOfNat(frame[r].status),
                 RESPONSE \o frame[r].body>>]
    /\ Goto(r, "l50")
    /\ UNCHANGED <<frame, wire, stderr, exit_code, inputs>>

\* A rejected record rebuilt and sent again instead of sys.exit(1).
CheckStatusRebuild(r) ==
    /\ pc[r] = "l50"
    /\ IF frame[r].status # CREATED_STATUS
       THEN /\ Emit(r, FAILED)
            /\ Goto(r, "l19")
       ELSE /\ Goto(r, "l54")
            /\ UNCHANGED stdout
    /\ UNCHANGED <<frame, wire, stderr, exit_code, inputs>>

\* lines 50-52: sys.exit(1) raises SystemExit, which no handler catches
CheckStatus(r) ==
    /\ pc[r] = "l50"
    /\ IF frame[r].status # CREATED_STATUS
       THEN /\ Emit(r, FAILED)
            /\ Terminate(r, 1)
       ELSE /\ Goto(r, "l54")
            /\ UNCHANGED <<stdout, exit_code>>
    /\ UNCHANGED <<frame, wire, stderr, inputs>>

\* line 54, then main() returns and the interpreter exits with status 0
PrintSuccess(r) ==
    /\ pc[r] = "l54"
    /\ Emit(r, CREATED)
    /\ Terminate(r, 0)
    /\ UNCHANGED <<frame, wire, stderr, inputs>>

\* line 56
PrintErrorStatus(r) ==
    /\ pc[r] = "l56"
    /\ Emit(r, HTTP_STATUS \o StrOfNat(frame[r].e.code))
    /\ Goto(r, "l57")
    /\ UNCHANGED <<frame, wire, stderr, exit_code, inputs>>

\* line 57: a decode error inside the handler is uncaught as well
PrintErrorBody(r) ==
    /\ pc[r] = "l57"
    /\ LET decoded == Decode(frame[r].e.raw)
       IN  IF decoded.ok
           THEN /\ Emit(r, RESPONSE \o decoded.text)
                /\ Goto(r, "l58")
                /\ UNCHANGED <<frame, wire, stderr, exit_code, inputs>>
           ELSE Uncaught(r, "UnicodeDecodeError")

\* The request sent again after an HTTP error instead of sys.exit(1).
FailOnHTTPErrorRetry(r) ==
    /\ pc[r] = "l58"
    /\ Emit(r, FAILED)
    /\ Goto(r, "l44")
    /\ UNCHANGED <<frame, wire, stderr, exit_code, inputs>>

\* lines 58-59
FailOnHTTPError(r) ==
    /\ pc[r] = "l58"
    /\ Emit(r, FAILED)
    /\ Terminate(r, 1)
    /\ UNCHANGED <<frame, wire, stderr, inputs>>

\* ------------------------------------------------------------------------
\* Inputs
\* ------------------------------------------------------------------------

\* Longest response body, in bytes.
MaxBodyLen == 1

\* Latest second of the minute datetime.utcnow() is read in.
MaxSecond == 1

Versions ==
    {<<"1", ".", "2", ".", "3">>,
     <<"1", ".", "2", ".", "3", "-", "b", "e", "t", "a", ".", "1">>,
     <<"b", "e", "t", "a", "2">>,
     <<"1", ".", "0", "-", "B", "e", "t", "a">>,
     <<"1", ".", "0", "-", "B", "E", "T", "A">>,
     <<"1", "-", "b", "e", "t", ".", "a">>}

ReleaseNotes == {<<"f", "i", "x">>}

Repositories == {<<>>, <<"o", "c", "t", "o", "/", "f", "o", "x">>}

Signatures == {<<"s", "i", "g", "=">>}

FileSizes ==
    {<<"1", "2">>, <<" ", "1", "_", "0", "\n">>,
     <<"a", "b", "c">>, <<"1", ".", "5">>, <<>>}

Tokens == {<<"t", "1">>, <<"t", "2">>}

EnvNames ==
    {"VERSION", "RELEASE_NOTES", "GITHUB_REPOSITORY", "SPARKLE_SIGNATURE",
     "FILE_SIZE", "INTERNAL_API_TOKEN"}

\* Every environment: any subset of the variables set, each to any value.
Environs(versions, notes, repositories, signatures, sizes, tokens) ==
    {[n \in set |-> values[n]] :
        set \in SUBSET EnvNames,
        values \in [VERSION : versions, RELEASE_NOTES : notes,
                    GITHUB_REPOSITORY : repositories,
                    SPARKLE_SIGNATURE : signatures, FILE_SIZE : sizes,
                    INTERNAL_API_TOKEN : tokens]}

Statuses == {200, 201, 500}

ByteSamples == {111, 195, 169}

RECURSIVE BytesUpTo(_)
BytesUpTo(n) ==
    IF n = 0 THEN {<<>>}
    ELSE LET shorter == BytesUpTo(n - 1)
         IN  shorter \cup {Append(b, x) : b \in shorter, x \in ByteSamples}

Bodies == BytesUpTo(MaxBodyLen)

\* What the transport can answer: a response of any status and body, or a
\* failure below HTTP.
Answers ==
    {[answered |-> TRUE, status |-> s, raw |-> b] : s \in Statuses, b \in Bodies}
      \cup {[answered |-> FALSE, status |-> 0, raw |-> <<>>]}

Times ==
    {[year |-> 2025, month |-> 7, day |-> 4, hour |-> 9, minute |-> 30,
      second |-> s] : s \in 0..MaxSecond}

\* ------------------------------------------------------------------------
\* Specification
\* ------------------------------------------------------------------------

Start(runs) ==
    /\ pc = [r \in runs |-> "l11"]
    /\ frame = [r \in runs |-> EmptyDict]
    /\ wire = [r \in runs |-> <<>>]
    /\ stdout = [r \in runs |-> <<>>]
    /\ stderr = [r \in runs |-> <<>>]
    /\ exit_code = EmptyDict

\* One invocation of the script, in any environment.
Init ==
    /\ Start({1})
    /\ environ \in [{1} -> Environs(Versions, ReleaseNotes, Repositories,
                                     Signatures, FileSizes, Tokens)]
    /\ api \in [{1} -> Answers]
    /\ clock \in [{1} -> Times]

Step(r) ==
    \/ ReadVersion(r)
    \/ DeriveChannel(r)
    \/ ReadReleaseNotes(r)
    \/ ReadGithubRepo(r)
    \/ ReadSignature(r)
    \/ ReadFileSize(r)
    \/ ReadApiToken(r)
    \/ BuildPayload(r)
    \/ BuildRequest(r)
    \/ UrlOpen(r)
    \/ ReadResponse(r)
    \/ PrintResponse(r)
    \/ CheckStatus(r)
    \/ PrintSuccess(r)
    \/ PrintErrorStatus(r)
    \/ PrintErrorBody(r)
    \/ FailOnHTTPError(r)

Next == \E r \in Runs : Step(r)

Spec == Init /\ [][Next]_vars

\* Two invocations whose environments differ at most in the value of
\* INTERNAL_API_TOKEN and whose requests get the same answer.
PairVersions ==
    {<<"1", ".", "2", ".", "3", "-", "b", "e", "t", "a", ".", "1">>}

PairEnvirons ==
    {e \in Environs(PairVersions, ReleaseNotes, Repositories, Signatures,
                    {<<"1", "2">>, <<"a", "b", "c">>}, Tokens) :
        /\ "RELEASE_NOTES" \notin DOMAIN e
        /\ "GITHUB_REPOSITORY" \in DOMAIN e => e["GITHUB_REPOSITORY"] # <<>>}

InitPair ==
    /\ Start({1, 2})
    /\ \E e \in PairEnvirons, t \in Tokens :
          environ = [r \in {1, 2} |->
              IF r = 2 /\ "INTERNAL_API_TOKEN" \in DOMAIN e
              THEN [e EXCEPT !["INTERNAL_API_TOKEN"] = t] ELSE e]
    /\ \E a \in Answers : api = [r \in {1, 2} |-> a]
    /\ clock \in [{1, 2} -> Times]

SpecPair == InitPair /\ [][Next]_vars

\* ------------------------------------------------------------------------
\* Properties
\* ------------------------------------------------------------------------

Exited(r) == pc[r] = "exited"

\* Run r sent its request and an HTTP response came back.
ResponseReceived(r) == wire[r] # <<>> /\ api[r].answered

\* Run r sent its request and the transport failed below HTTP.
TransportFailed(r) == wire[r] # <<>> /\ ~api[r].answered

StartsWith(prefix, s) ==
    Len(s) >= Len(prefix) /\ SubSeq(s, 1, Len(prefix)) = prefix

RequiredNames ==
    {"VERSION", "SPARKLE_SIGNATURE", "FILE_SIZE", "INTERNAL_API_TOKEN"}

\* The environment of run r lacks a required variable or has a FILE_SIZE
\* that is no integer.
BadConfig(r) ==
    \/ \E n \in RequiredNames : n \notin DOMAIN environ[r]
    \/ /\ "FILE_SIZE" \in DOMAIN environ[r]
       /\ ~ParseInt(environ[r]["FILE_SIZE"]).ok

\* C1 (as claimed): a run that ended has exit code 0 exactly when an HTTP
\* response with status 201 was received, and exit code 1 in every other case.
ExitZeroIffCreated ==
    \A r \in Runs :
        Exited(r) =>
            /\ exit_code[r] \in {0, 1}
            /\ exit_code[r] = 0 <=>
                  (ResponseReceived(r) /\ api[r].status = CREATED_STATUS)

\* C2: with a required variable missing, or a FILE_SIZE that does not parse as
\* an integer, the run never sends a request and, once ended, has a non-zero
\* exit status; it never gets past the line that reads the offending variable.
BadConfigFailsBeforeRequest ==
    \A r \in Runs :
        BadConfig(r) =>
            /\ wire[r] = <<>>
            /\ pc[r] \in {"l11", "l12", "l13", "l14", "l15", "l16", "l17", "exited"}
            /\ Exited(r) => exit_code[r] # 0

BadFileSizeFailed ==
    \E r \in Runs :
        /\ Exited(r)
        /\ RequiredNames \subseteq DOMAIN environ[r]
        /\ ~ParseInt(environ[r]["FILE_SIZE"]).ok
        /\ exit_code[r] = 1 /\ stderr[r] = <<"ValueError">>

\* The literal "beta" stands in the version at some position.
HasBetaAt(version) ==
    \E i \in 1..Len(version) :
        /\ i + 3 <= Len(version)
        /\ version[i] = "b" /\ version[i + 1] = "e"
        /\ version[i + 2] = "t" /\ version[i + 3] = "a"

\* C3: the channel of every submitted record is "beta" exactly when VERSION
\* contains the lower-case literal "beta" at some position, "stable" otherwise.
ChannelIsBetaSubstringTest ==
    \A r \in Runs : \A i \in 1..Len(wire[r]) :
        JsonGet(wire[r][i].data, "channel") =
            IF HasBetaAt(environ[r]["VERSION"]) THEN BETA ELSE STABLE

BetaInsideVersionSubmitted ==
    \E r \in Runs :
        /\ wire[r] # <<>>
        /\ HasBetaAt(environ[r]["VERSION"])
        /\ SubSeq(environ[r]["VERSION"], 1, 4) # BETA
        /\ JsonGet(wire[r][1].data, "channel") = BETA

\* C4: the download_url of every submitted record is
\* "https://github.com/" + repo + "/releases/download/v" + version +
\* "/TheQuickFox-" + version + ".zip", repo being GITHUB_REPOSITORY when it is
\* set and "foxwise-ai/TheQuickFox" when it is not.
DownloadUrlMatchesTemplate ==
    \A r \in Runs : \A i \in 1..Len(wire[r]) :
        LET version == environ[r]["VERSION"]
            repo == IF "GITHUB_REPOSITORY" \in DOMAIN environ[r]
                    THEN environ[r]["GITHUB_REPOSITORY"] ELSE DEFAULT_REPO
        IN  JsonGet(wire[r][i].data, "download_url") =
                URL_HOST \o repo \o URL_DOWNLOAD \o version \o URL_FILE
                  \o version \o URL_EXT

DefaultRepoSubmitted ==
    \E r \in Runs :
        /\ wire[r] # <<>>
        /\ "GITHUB_REPOSITORY" \notin DOMAIN environ[r]
        /\ StartsWith(URL_HOST \o DEFAULT_REPO \o URL_DOWNLOAD,
                      JsonGet(wire[r][1].data, "download_url"))

ResponseFullyReported ==
    \A r \in Runs :
        (Exited(r) /\ ResponseReceived(r)) =>
            /\ Len(stdout[r]) = 3
            /\ stdout[r][1] = HTTP_STATUS \o StrOfNat(api[r].status)
            /\ StartsWith(RESPONSE, stdout[r][2])
            /\ stdout[r][3] =
                  IF api[r].status = CREATED_STATUS THEN CREATED ELSE FAILED

\* C7: after a transport failure the run ends with exit code 1 and has printed
\* no "HTTP Status:" line, no "Response:" line and no success marker.
TransportFailureSilentExitOne ==
    \A r \in Runs :
        TransportFailed(r) =>
            /\ Exited(r) /\ exit_code[r] = 1
            /\ \A i \in 1..Len(stdout[r]) :
                  /\ ~StartsWith(HTTP_STATUS, stdout[r][i])
                  /\ ~StartsWith(RESPONSE, stdout[r][i])
                  /\ stdout[r][i] # CREATED

TransportFailureSeen ==
    \E r \in Runs :
        /\ TransportFailed(r) /\ Exited(r)
        /\ stderr[r] = <<"URLError">>

\* The phases of a run: 1 Collecting Inputs (lines 11-17), 2 Building Payload
\* (lines 19-41), 3 Submitting (lines 44-59), 4 terminal (Success or Failure).
PhaseRank(line) ==
    CASE line \in {"l11", "l12", "l13", "l14", "l15", "l16", "l17"} -> 1
      [] line \in {"l19", "l32"} -> 2
      [] line = "exited" -> 4
      [] OTHER -> 3

AllBuilt(r) ==
    /\ {"version", "channel", "release_notes", "github_repo", "signature",
        "file_size", "api_token", "payload", "data", "req"}
          \subseteq DOMAIN frame[r]
    /\ frame[r].req.data = JsonDumps(frame[r].payload)

BuildNumberIsVersion ==
    \A r \in Runs : \A i \in 1..Len(wire[r]) :
        /\ JsonGet(wire[r][i].data, "build_number") = environ[r]["VERSION"]
        /\ JsonGet(wire[r][i].data, "build_number")
              = JsonGet(wire[r][i].data, "version")

DashedVersionSubmitted ==
    \E r \in Runs :
        /\ wire[r] # <<>>
        /\ \E i \in 1..Len(environ[r]["VERSION"]) : environ[r]["VERSION"][i] = "-"
        /\ JsonGet(wire[r][1].data, "build_number") = environ[r]["VERSION"]

SameExceptToken(e1, e2) ==
    /\ DOMAIN e1 = DOMAIN e2
    /\ \A n \in DOMAIN e1 \ {"INTERNAL_API_TOKEN"} : e1[n] = e2[n]

\* The members of a JSON object other than published_at.
WithoutPublishedAt(data) ==
    SelectSeq(data, LAMBDA m : m.name # "published_at")

\* C10: two runs that differ only in INTERNAL_API_TOKEN and get the same answer
\* have, at the same line, printed the same output and sent requests that are
\* equal in method, URL, Content-Type and every field of the record other than
\* published_at, the Authorization header being "Bearer " + the run's own
\* token; and they end with the same exit code.
TokenOnlyInAuthorization ==
    \A r1 \in Runs, r2 \in Runs :
        (/\ SameExceptToken(environ[r1], environ[r2])
         /\ api[r1] = api[r2]
         /\ pc[r1] = pc[r2]) =>
            /\ stdout[r1] = stdout[r2]
            /\ Len(wire[r1]) = Len(wire[r2])
            /\ \A i \in 1..Len(wire[r1]) :
                  /\ wire[r1][i].method = wire[r2][i].method
                  /\ wire[r1][i].url = wire[r2][i].url
                  /\ wire[r1][i].headers["Content-Type"]
                        = wire[r2][i].headers["Content-Type"]
                  /\ WithoutPublishedAt(wire[r1][i].data)
                        = WithoutPublishedAt(wire[r2][i].data)
                  /\ wire[r1][i].headers["Authorization"]
                        = BEARER \o environ[r1]["INTERNAL_API_TOKEN"]
            /\ Exited(r1) => exit_code[r1] = exit_code[r2]

TwoTokensBothCreated ==
    \E r1 \in Runs, r2 \in Runs :
        /\ SameExceptToken(environ[r1], environ[r2])
        /\ "INTERNAL_API_TOKEN" \in DOMAIN environ[r1]
        /\ environ[r1]["INTERNAL_API_TOKEN"] # environ[r2]["INTERNAL_API_TOKEN"]
        /\ clock[r1] # clock[r2]
        /\ Exited(r1) /\ Exited(r2)
        /\ wire[r1] # <<>> /\ wire[r2] # <<>>
        /\ exit_code[r1] = 0 /\ exit_code[r2] = 0

====
